---- MODULE Spec2Model ----
(***************************************************************************)
(* Robust Mean-Shift filter (filter_ms_rlsf.c): the weight evaluator       *)
(* compute_weight_ms_rlsf, the per-pixel mode-seeking loop                 *)
(* denoise_pixel_rlsf and the OpenMP driver filter_ms_rlsf, with the       *)
(* parts of the image library the driver calls (is_rgb_img, alloc_img,     *)
(* get_img_data_nd, ERROR_RET, error, the error mode).                     *)
(*                                                                         *)
(* Numbers.  The C code computes in IEEE single precision.  Here a float   *)
(* is a fixed-point integer: a colour channel or a pixel coordinate x is   *)
(* held as x * FScale, a squared distance as d * FScale * FScale and a     *)
(* kernel weight w in [0, 1] as w * WScale; divisions round to nearest,    *)
(* as the float division does.  expf is ExpNeg, which keeps expf's         *)
(* zero/non-zero structure: 1 at 0, and 0 exactly when the argument is     *)
(* above ExpUnderflow (where single precision underflows to 0).  0/0 is    *)
(* the flag nan of a call's locals.                                        *)
(*                                                                         *)
(* Steps.  The driver is one step per phase (checks, allocations, fill,    *)
(* conversion, free and return).  Inside the parallel region a thread      *)
(* steps when it takes a row, when a call of denoise_pixel_rlsf gets past  *)
(* the border test and loads its pixel, once per iteration of the call's   *)
(* loop, and when the call stores its result.  Calls that return at the    *)
(* border test touch no buffer and are part of the step before them.       *)
(***************************************************************************)
EXTENDS Integers, Sequences, FiniteSets, TLC

(***************************************************************************)
(* Bounds of the model and representation constants.                       *)
(***************************************************************************)
MaxR == 2
MaxIter == 2
NumThreads == 2

FScale == 16
WScale == 4096
ExpUnderflow == 104
ExpTerms == 8

\* the NULL Image pointer and the NULL int pointer
NULL == [type |-> 0, num_rows |-> 0, num_cols |-> 0, data |-> << >>]

NULL_BUF == << >>

PIX_INVALID == 0
PIX_GRAY == 2
PIX_RGB == 3

(***************************************************************************)
(* Small helpers of the C language.                                        *)
(***************************************************************************)
MAX(x, y) == IF x > y THEN x ELSE y

MIN(x, y) == IF x < y THEN x ELSE y

\* x / y of two floats, x scaled, y > 0: rounded to nearest
DivRound(x, y) == (2 * x + y) \div (2 * y)

\* (int)round(v) of a non-negative fixed-point v: halves round away from zero
Round(v) == (2 * v + FScale) \div (2 * FScale)

\* (int)(v): truncation of a non-negative fixed-point v
Trunc(v) == v \div FScale

\* the three channels of a packed colour:
\* (p & 0xFF0000) >> 16, (p & 0xFF00) >> 8, p & 0xFF
Red(p) == (p \div 65536) % 256

Green(p) == (p \div 256) % 256

Blue(p) == p % 256

\* (r << 16) | (g << 8) | b of three non-negative ints; the OR of
\* non-overlapping fields is their sum, and a field above 255 overlaps the next
BitOr(x, y) ==
  LET RECURSIVE Or(_, _, _)
      Or(u, v, k) == IF k = 0 THEN 0
                     ELSE (IF (u % 2 = 1) \/ (v % 2 = 1) THEN 1 ELSE 0)
                          + 2 * Or(u \div 2, v \div 2, k - 1)
  IN Or(x, y, 31)

Pack(cr, cg, cb) == BitOr(BitOr(cr * 65536, cg * 256), cb)

(***************************************************************************)
(* expf(-x) for x = n / (d * FScale^2) >= 0, as a weight scaled by WScale. *)
(***************************************************************************)
\* WScale * e^(-k) for an integer k, rounded
ExpInt(k) ==
  CASE k = 0 -> 4096 [] k = 1 -> 1507 [] k = 2 -> 554 [] k = 3 -> 204
    [] k = 4 -> 75 [] k = 5 -> 28 [] k = 6 -> 10 [] k = 7 -> 4 [] k = 8 -> 1
    [] OTHER -> 0

\* WScale * e^(-fr / WScale) for 0 <= fr < WScale: the Taylor series of expf
ExpFrac(fr) ==
  LET RECURSIVE Series(_, _)
      Series(term, j) ==
        IF j > ExpTerms \/ term = 0 THEN 0
        ELSE term + Series((0 - (term * fr)) \div (WScale * j), j + 1)
  IN Series(WScale, 1)

ExpNeg(n, d) ==
  LET unit == d * FScale * FScale
      k    == n \div unit
      fr   == ((n % unit) * (WScale \div (FScale * FScale))) \div d
  IN IF n = 0 THEN WScale
     ELSE IF k >= ExpUnderflow THEN 0
     ELSE MAX(1, (ExpInt(k) * ExpFrac(fr)) \div WScale)

(***************************************************************************)
(* compute_weight_ms_rlsf.  cr, cg, cb: the colour handed in (ints); pos:  *)
(* the index whose 3x3 neighbourhood is read; central_pix: the fixed-point *)
(* colour that stands in for the centre cell.  A distance is scaled by     *)
(* FScale^2; Inf stands for +INFINITY.                                     *)
(***************************************************************************)
Inf == 2000000000

\* in_data[q].  A read outside the block is undefined; no step of the filter
\* makes one (ReadsInBlock below), and OutOfBlock only makes the operator total
OutOfBlock == 0

Load(in_data, q) == IF q \in DOMAIN in_data THEN in_data[q] ELSE OutOfBlock

Sq(x) == x * x

\* a neighbourhood that reaches two rows up and down
NeighbourIndexTwoRows(width, pos, a) ==
  pos + 2 * ((a \div 3) - 1) * width + ((a % 3) - 1)

\* the index read for neighbourhood cell a = 0..8 (i = a \div 3 - 1, j = a % 3 - 1)
NeighbourIndex(width, pos, a) == pos + ((a \div 3) - 1) * width + ((a % 3) - 1)

\* a distance measured to the colour central_pix points to
DistanceToReference(in_data, width, cr, cg, cb, pos, central_pix, a) ==
  LET c  == Load(in_data, NeighbourIndex(width, pos, a))
      r1 == IF a = 4 THEN central_pix[1] ELSE Red(c) * FScale
      g1 == IF a = 4 THEN central_pix[2] ELSE Green(c) * FScale
      b1 == IF a = 4 THEN central_pix[3] ELSE Blue(c) * FScale
  IN Sq(central_pix[1] - r1) + Sq(central_pix[2] - g1) + Sq(central_pix[3] - b1)

\* lines 33-45: the squared distance of neighbourhood cell a = 0..8
Distance(in_data, width, cr, cg, cb, pos, central_pix, a) ==
  LET c  == Load(in_data, NeighbourIndex(width, pos, a))
      r1 == IF a = 4 THEN central_pix[1] ELSE Red(c) * FScale
      g1 == IF a = 4 THEN central_pix[2] ELSE Green(c) * FScale
      b1 == IF a = 4 THEN central_pix[3] ELSE Blue(c) * FScale
  IN Sq(cr * FScale - r1) + Sq(cg * FScale - g1) + Sq(cb * FScale - b1)

\* lines 30-47: weights[0..8] in the order the loops fill it, as the
\* sequence weights[a] = Distances(...)[a + 1]
Distances(in_data, width, cr, cg, cb, pos, central_pix) ==
  LET RECURSIVE Fill(_)
      Fill(a) == IF a > 8 THEN << >>
                 ELSE <<Distance(in_data, width, cr, cg, cb, pos, central_pix, a)>>
                      \o Fill(a + 1)
  IN Fill(0)

\* a search that keeps the last of equal smallest elements
ArgMinLast(weights) ==
  LET RECURSIVE Scan(_, _)
      Scan(j, tmp) == IF j > 9 THEN tmp
                      ELSE Scan(j + 1, IF weights[j] <= weights[tmp] THEN j ELSE tmp)
  IN Scan(2, 1)

\* lines 53-62: the place of the first smallest element (tmp + 1)
ArgMin(weights) ==
  LET RECURSIVE Scan(_, _)
      Scan(j, tmp) == IF j > 9 THEN tmp
                      ELSE Scan(j + 1, IF weights[j] < weights[tmp] THEN j ELSE tmp)
  IN Scan(2, 1)

\* lines 49-65: the sum of the extracted minima, each set to +INFINITY after
TrimmedSum(weights, a) ==
  LET RECURSIVE Extract(_, _)
      Extract(ws, i) ==
        IF ~((i < a) /\ (i < 9)) THEN 0
        ELSE LET tmp == ArgMin(ws)
             IN ws[tmp] + Extract([ws EXCEPT ![tmp] = Inf], i + 1)
  IN Extract(weights, 0)

\* lines 24-69; s is the sigma argument (the caller's 2 * sigma * sigma)
compute_weight_ms_rlsf(in_data, width, cr, cg, cb, pos, a, s, central_pix) ==
  ExpNeg(TrimmedSum(Distances(in_data, width, cr, cg, cb, pos, central_pix), a),
         a * s)

(***************************************************************************)
(* denoise_pixel_rlsf.  The locals of one call are a record: ir, ic, r, g, *)
(* b (fixed-point floats), iter_count, diff, out_pos, and nan, which is    *)
(* TRUE once the estimates are 0/0 (wsum = 0).                             *)
(***************************************************************************)
\* a border two pixels wide (the block radius 1 plus one)
OnBorderTwoWide(width, height, ic, ir) ==
  LET f == 2 IN (ic >= width - f) \/ (ir >= height - f) \/ (ic < f) \/ (ir < f)

\* a border test that forgets the left column
OnBorderNoLeft(width, height, ic, ir) ==
  LET f == 1 IN (ic >= width - f) \/ (ir >= height - f) \/ (ir < f)

\* line 77: the pixel is on the one-pixel border (f = 1) and the call returns
OnBorder(width, height, ic, ir) ==
  LET f == 1 IN (ic >= width - f) \/ (ir >= height - f) \/ (ic < f) \/ (ir < f)

\* an entry that takes the column for the row in the output index
EnterPixelSwapped(in_data, width, ic, ir) ==
  LET pos == ir * width + ic
  IN [ir |-> ir * FScale, ic |-> ic * FScale,
      r |-> Red(Load(in_data, pos)) * FScale,
      g |-> Green(Load(in_data, pos)) * FScale,
      b |-> Blue(Load(in_data, pos)) * FScale,
      iter_count |-> 0, diff |-> 0, out_pos |-> ic * width + ir, nan |-> FALSE]

\* lines 73-93: the locals at the first entry of the loop
EnterPixel(in_data, width, ic, ir) ==
  LET pos == ir * width + ic
  IN [ir |-> ir * FScale, ic |-> ic * FScale,
      r |-> Red(Load(in_data, pos)) * FScale,
      g |-> Green(Load(in_data, pos)) * FScale,
      b |-> Blue(Load(in_data, pos)) * FScale,
      iter_count |-> 0, diff |-> 0, out_pos |-> pos, nan |-> FALSE]

\* a window whose first row is not cut at the ring
WindowFromAnyRow(l, width, height, radius) ==
  [istart |-> Round(l.ir) - radius - 1,
   iend   |-> MIN(Round(l.ir) + radius + 1, height - 2),
   jstart |-> MAX(Round(l.ic) - radius - 1, 1),
   jend   |-> MIN(Round(l.ic) + radius + 1, width - 2)]

\* lines 98-101: the window of an iteration
Window(l, width, height, radius) ==
  [istart |-> MAX(Round(l.ir) - radius - 1, 1),
   iend   |-> MIN(Round(l.ir) + radius + 1, height - 2),
   jstart |-> MAX(Round(l.ic) - radius - 1, 1),
   jend   |-> MIN(Round(l.ic) + radius + 1, width - 2)]

\* a call that hands in the window cell itself as pos
CallPosAtCell(width, l, i, j) == i * width + j

\* line 120: the argument pos of the call for window cell <<i, j>>, the
\* rounded position of the task
CallPos(width, l, i, j) == Round(l.ir) * width + Round(l.ic)

\* lines 124-128: the weight of window cell <<i, j>>; the colour is the one
\* of the cell, central_pix the colour estimate before the pass
CellWeight(in_data, width, l, a, s, i, j) ==
  LET q   == i * width + j
      pos == CallPos(width, l, i, j)
  IN compute_weight_ms_rlsf(in_data, width, Red(Load(in_data, q)),
                            Green(Load(in_data, q)), Blue(Load(in_data, q)),
                            pos, a, s, <<l.r, l.g, l.b>>)

\* lines 114-136: the sums of one pass over the window win, the loop over the
\* rows i outside and the loop over the columns j inside (weights scaled by
\* WScale)
Accumulate(in_data, width, l, a, s, win) ==
  LET Zero == [r |-> 0, g |-> 0, b |-> 0, wsum |-> 0, mx |-> 0, my |-> 0]
      Add(x, y) == [r    |-> x.r + y.r,
                    g    |-> x.g + y.g,
                    b    |-> x.b + y.b,
                    wsum |-> x.wsum + y.wsum,
                    mx   |-> x.mx + y.mx,
                    my   |-> x.my + y.my]
      Cell(i, j) ==
        LET c == Load(in_data, i * width + j)
            w == CellWeight(in_data, width, l, a, s, i, j)
        IN [r |-> Red(c) * w, g |-> Green(c) * w, b |-> Blue(c) * w,
            wsum |-> w, mx |-> i * w, my |-> j * w]
      RECURSIVE Row(_, _)
      Row(i, j) == IF j > win.jend THEN Zero ELSE Add(Cell(i, j), Row(i, j + 1))
      RECURSIVE Rows(_)
      Rows(i) == IF i > win.iend THEN Zero ELSE Add(Row(i, win.jstart), Rows(i + 1))
  IN Rows(win.istart)

\* a loop body that forgets to count its iterations
IterateBodyNoCount(in_data, width, height, radius, a, s, l) ==
  LET sums == Accumulate(in_data, width, l, a, s, Window(l, width, height, radius))
  IN IF sums.wsum = 0
     THEN [l EXCEPT !.nan = TRUE]
     ELSE LET nr  == DivRound(sums.r * FScale, sums.wsum)
              ng  == DivRound(sums.g * FScale, sums.wsum)
              nb  == DivRound(sums.b * FScale, sums.wsum)
              nir == MAX(DivRound(sums.mx * FScale, sums.wsum), 0)
              nic == MAX(DivRound(sums.my * FScale, sums.wsum), 0)
          IN [l EXCEPT !.r = nr, !.g = ng, !.b = nb, !.ir = nir, !.ic = nic,
                       !.diff = Sq(l.r - nr) + Sq(l.g - ng) + Sq(l.b - nb)
                                + Sq(l.ir - nir) + Sq(l.ic - nic)]

\* an iteration that averages the colours and leaves the position where it is
IterateBodyColourOnly(in_data, width, height, radius, a, s, l) ==
  LET sums == Accumulate(in_data, width, l, a, s, Window(l, width, height, radius))
  IN IF sums.wsum = 0
     THEN [l EXCEPT !.nan = TRUE, !.iter_count = l.iter_count + 1]
     ELSE LET nr  == DivRound(sums.r * FScale, sums.wsum)
              ng  == DivRound(sums.g * FScale, sums.wsum)
              nb  == DivRound(sums.b * FScale, sums.wsum)
          IN [l EXCEPT !.r = nr, !.g = ng, !.b = nb,
                       !.diff = Sq(l.r - nr) + Sq(l.g - ng) + Sq(l.b - nb),
                       !.iter_count = l.iter_count + 1]

\* lines 96-152: one execution of the loop body
IterateBody(in_data, width, height, radius, a, s, l) ==
  LET sums == Accumulate(in_data, width, l, a, s, Window(l, width, height, radius))
  IN IF sums.wsum = 0
     THEN [l EXCEPT !.nan = TRUE, !.iter_count = l.iter_count + 1]
     ELSE LET nr  == DivRound(sums.r * FScale, sums.wsum)
              ng  == DivRound(sums.g * FScale, sums.wsum)
              nb  == DivRound(sums.b * FScale, sums.wsum)
              nir == MAX(DivRound(sums.mx * FScale, sums.wsum), 0)
              nic == MAX(DivRound(sums.my * FScale, sums.wsum), 0)
          IN [l EXCEPT !.r = nr, !.g = ng, !.b = nb, !.ir = nir, !.ic = nic,
                       !.diff = Sq(l.r - nr) + Sq(l.g - ng) + Sq(l.b - nb)
                                + Sq(l.ir - nir) + Sq(l.ic - nic),
                       !.iter_count = l.iter_count + 1]

\* a loop that does not test diff
LoopContinuesIgnoringDiff(l, it) == (l.iter_count < it) /\ ~l.nan

\* a loop that tests iter_count <= iter
LoopContinuesOffByOne(l, it) == (l.iter_count <= it) /\ ~l.nan /\ (l.diff > 0)

\* line 153: the loop's condition (a NaN diff compares false)
LoopContinues(l, it) == (l.iter_count < it) /\ ~l.nan /\ (l.diff > 0)

\* a store that packs the green channel twice
OutValueGreenTwice(l) == Pack(Trunc(l.r), Trunc(l.g), Trunc(l.g))

\* lines 155-157: the packed colour stored at out_pos
OutValue(l) == Pack(Trunc(l.r), Trunc(l.g), Trunc(l.b))

\* the whole call on a non-border pixel: the locals when the loop is left
RECURSIVE RunLoop(_, _, _, _, _, _, _, _)
RunLoop(in_data, width, height, radius, a, s, it, l) ==
  LET n == IterateBody(in_data, width, height, radius, a, s, l)
  IN IF LoopContinues(n, it)
     THEN RunLoop(in_data, width, height, radius, a, s, it, n)
     ELSE n

(***************************************************************************)
(* The calls the model makes: images, parameters, error mode.              *)
(***************************************************************************)
\* the colour of pixel (i, j) of a test pattern
PatternPixel(pattern, i, j) ==
  CASE pattern = "uniform" -> <<128, 128, 128>>
    [] pattern = "tinted"  -> <<10, 200, 77>>
    [] pattern = "ramp"    -> <<(40 * i + 7 * j) % 256, (200 + 30 * j) % 256, 255 - 3 * i>>
    [] pattern = "spike"   -> IF i = 1 /\ j = 2 THEN <<255, 0, 255>> ELSE <<100, 110, 120>>
    [] pattern = "smooth"  -> <<100 + 2 * i + j, 100 + i, 120 - j>>
    [] pattern = "speck"   -> IF i = 2 /\ j = 1 THEN <<250, 20, 128>>
                              ELSE <<60 + i + 3 * j, 90 - 2 * i, 30 + j>>

\* an Image object: its pixel type, its size and its byte data, row-major
MakeImage(type, rows, cols, pattern) ==
  [type |-> type, num_rows |-> rows, num_cols |-> cols,
   data |-> [p \in 0..(rows * cols - 1) |-> PatternPixel(pattern, p \div cols, p % cols)]]

ColourImages == {MakeImage(PIX_RGB, 3, 4, "ramp"), MakeImage(PIX_RGB, 4, 3, "spike")}

OtherImages == {NULL, MakeImage(PIX_GRAY, 3, 3, "uniform")}

RValues == 0..MaxR

AlphaValues == {0, 1, 10}

SigmaValues == {-1, 0, 1}

IterValues == 0..MaxIter

\* the blocks filter_ms_rlsf allocates
Blocks == {"out_img", "int_in_data", "int_out_data"}

\* a cell of a malloc block that has not been written: its value is
\* indeterminate, and a read of it yields any of GarbageFills
Indeterminate == -1

GarbageFills == {0, 11259375}

\* (int) of a NaN float is undefined: what the conversion instruction of a
\* build yields (0x80000000 on x86, 0 on ARM)
NaNCasts == {0, (0 - 2147483647) - 1}

VARIABLES
  cw,            \* a call of compute_weight_ms_rlsf followed step by step
  dev,           \* the accelerator: its buffers, its pixel threads, its image
  in_img,        \* the caller's image
  alpha_arg,     \* history: the alpha the caller passed
  params,        \* r, alpha, sigma, iter of the call (alpha is clamped in place)
  abort_on_err,  \* error.c: the error mode
  oom,           \* the allocations of this call that the allocator refuses
  nthreads,      \* the size of the team of the parallel region
  nan_cast,      \* the int this build's float-to-int conversion yields for a NaN
  pc,            \* where filter_ms_rlsf is
  out_img,       \* the image alloc_img returned, or NULL
  int_in_data,   \* the packed input buffer, or NULL
  int_out_data,  \* the packed output buffer, or NULL
  heap,          \* the blocks this call has allocated and not freed
  next_row,      \* the next iteration of the work-sharing loop to hand out
  th,            \* the worker threads of the parallel region
  stderr,        \* the messages printed so far
  result,        \* the value returned
  written,       \* history: for each output cell, the pixel tasks <<row, col>> that
                 \* wrote it and the threads that ran them
  calls          \* history: for each pixel, the calls of denoise_pixel_rlsf made
                 \* for it: the thread that made the call and its sigma argument

vars == <<cw, dev, in_img, alpha_arg, params, abort_on_err, oom, nthreads, nan_cast, pc, out_img, int_in_data,
          int_out_data, heap, next_row, th, stderr, result, written, calls>>

Threads == 1..nthreads

\* the locals of a thread that is not inside denoise_pixel_rlsf
NoLocals == [ir |-> 0, ic |-> 0, r |-> 0, g |-> 0, b |-> 0,
             iter_count |-> 0, diff |-> 0, out_pos |-> -1, nan |-> FALSE]

IdleThread == [pc |-> "idle", row |-> -1, col |-> -1, l |-> NoLocals]

\* no call of compute_weight_ms_rlsf is followed step by step
NoCall == [pc |-> "none", in_data |-> << >>, width |-> 0, r |-> 0, g |-> 0, b |-> 0,
           pos |-> 0, alpha |-> 0, sigma |-> 0, central_pix |-> <<0, 0, 0>>,
           weights |-> << >>, i |-> 0, w |-> 0, picked |-> << >>]

\* the accelerator has not been used
NoDevice == [pc |-> "off", in_data |-> << >>, out_data |-> << >>, l |-> << >>,
             loop |-> {}, store |-> {}, done |-> {}, nan_cast |-> 0, img |-> NULL]

\* filter_ms_rlsf has not returned
NoResult == [type |-> -1, num_rows |-> 0, num_cols |-> 0, data |-> << >>]

Init ==
  /\ in_img \in ColourImages \cup OtherImages
  /\ params \in [r : RValues, alpha : AlphaValues, sigma : SigmaValues, iter : IterValues]
  /\ alpha_arg = params.alpha
  /\ cw = NoCall
  /\ dev = NoDevice
  /\ abort_on_err \in {0, 1}
  /\ oom \in SUBSET Blocks
  /\ nthreads \in 1..NumThreads
  /\ nan_cast \in NaNCasts
  /\ pc = "call"
  /\ out_img = NULL
  /\ int_in_data = NULL_BUF
  /\ int_out_data = NULL_BUF
  /\ heap = {}
  /\ next_row = 0
  /\ th = [t \in Threads |-> IdleThread]
  /\ stderr = << >>
  /\ result = NoResult
  /\ written = << >>
  /\ calls = << >>

(***************************************************************************)
(* image_base.c and error.c as the driver uses them.                       *)
(***************************************************************************)
is_rgb_img(img) == (img # NULL) /\ (img.type = PIX_RGB)

\* a test that lets zero through
IsNotNegative(x) == x >= 0

\* IS_POS ( x ): x > DBL_EPSILON; on the integer values of the model, x > 0
IS_POS(x) == x > 0

get_err_mode == abort_on_err

\* checks that leave out the one of iter
FailedCheckNoIter(img, p) ==
  IF ~is_rgb_img(img) THEN "Not a color image !"
  ELSE IF ~IS_POS(p.r) THEN "Window size must be positive !"
  ELSE IF ~IS_POS(p.alpha) THEN "Alpha value must be positive !"
  ELSE IF ~IS_POS(p.sigma) THEN "Sigma value must be positive !"
  ELSE ""

\* lines 174-201 of filter_ms_rlsf: the message of the first failed check
\* ("" if all pass)
FailedCheck(img, p) ==
  IF ~is_rgb_img(img) THEN "Not a color image !"
  ELSE IF ~IS_POS(p.r) THEN "Window size must be positive !"
  ELSE IF ~IS_POS(p.alpha) THEN "Alpha value must be positive !"
  ELSE IF ~IS_POS(p.sigma) THEN "Sigma value must be positive !"
  ELSE IF ~IS_POS(p.iter) THEN "Numer of iterations must be positive !"
  ELSE ""

\* a call that hands alpha on as the caller gave it
ClampAlphaNever(a) == a

\* lines 203-204
ClampAlpha(a) == IF a > 9 THEN 9 ELSE a

(***************************************************************************)
(* filter_ms_rlsf.  pc: "call" -> "alloc" -> "fill" -> "parallel" ->       *)
(* "free" -> "returned"; "aborted" after abort ( ), "crashed" after a      *)
(* write or read through a NULL pointer.                                   *)
(***************************************************************************)
NumPixels == in_img.num_rows * in_img.num_cols

\* lines 174-204: the checks of the arguments and the clamp of alpha.
\* ERROR_RET aborts under the error mode; ERROR (error ( )) only prints.
Validate ==
  /\ pc = "call"
  /\ LET msg == FailedCheck(in_img, params)
     IN IF msg = ""
        THEN /\ pc' = "alloc"
             /\ params' = [params EXCEPT !.alpha = ClampAlpha(@)]
             /\ UNCHANGED <<stderr, result>>
        ELSE /\ stderr' = Append(stderr, msg)
             /\ params' = params
             /\ IF ~is_rgb_img(in_img) /\ get_err_mode # 0
                THEN pc' = "aborted" /\ result' = result
                ELSE pc' = "returned" /\ result' = NULL
  /\ UNCHANGED <<cw, dev, in_img, alpha_arg, abort_on_err, oom, nthreads, nan_cast, out_img, int_in_data, int_out_data, heap,
                 next_row, th, written, calls>>

\* alloc_img ( PIX_RGB, ... ) when memory is there: the bytes come from calloc
ZeroImage(rows, cols) ==
  [type |-> PIX_RGB, num_rows |-> rows, num_cols |-> cols,
   data |-> [p \in 0..(rows * cols - 1) |-> <<0, 0, 0>>]]

\* lines 206-216: alloc_img, get_img_data_nd and the two malloc calls; each
\* allocation may fail.  alloc_img's failure is an ERROR_RET; of a NULL image
\* get_img_data_nd makes a second ERROR_RET; the malloc results are not tested.
Allocate ==
  /\ pc = "alloc"
  /\ LET img_fails == "out_img" \in oom
         in_fails  == "int_in_data" \in oom
         out_fails == "int_out_data" \in oom
         fill      == Indeterminate
     IN
       IF img_fails /\ get_err_mode # 0
       THEN /\ pc' = "aborted"
            /\ stderr' = Append(stderr, "Insufficient memory !")
            /\ UNCHANGED <<out_img, int_in_data, int_out_data, heap, written, calls>>
       ELSE /\ pc' = "fill"
            /\ out_img' = IF img_fails THEN NULL
                          ELSE ZeroImage(in_img.num_rows, in_img.num_cols)
            /\ stderr' = IF img_fails
                         THEN stderr \o <<"Insufficient memory !", "Invalid image object !">>
                         ELSE stderr
            /\ int_in_data' = IF in_fails THEN NULL_BUF
                              ELSE [p \in 0..(NumPixels - 1) |-> fill]
            /\ int_out_data' = IF out_fails THEN NULL_BUF
                               ELSE [p \in 0..(NumPixels - 1) |-> fill]
            /\ heap' = (IF img_fails THEN {} ELSE {"out_img"})
                       \cup (IF in_fails THEN {} ELSE {"int_in_data"})
                       \cup (IF out_fails THEN {} ELSE {"int_out_data"})
            /\ written' = [p \in 0..(NumPixels - 1) |-> << >>]
            /\ calls' = [p \in 0..(NumPixels - 1) |-> << >>]
  /\ UNCHANGED <<cw, dev, in_img, alpha_arg, params, abort_on_err, oom, nthreads, nan_cast, next_row, th, result>>

\* line 220: the packed colour of an input pixel
PackPixel(px) == Pack(px[1], px[2], px[3])

\* lines 218-220: the packed copy of the input; through a NULL int_in_data
\* the first store faults
FillInput ==
  /\ pc = "fill"
  /\ IF int_in_data = NULL_BUF
     THEN pc' = "crashed" /\ int_in_data' = int_in_data
     ELSE /\ pc' = "parallel"
          /\ int_in_data' = [p \in 0..(NumPixels - 1) |-> PackPixel(in_img.data[p])]
  /\ UNCHANGED <<cw, dev, in_img, alpha_arg, params, abort_on_err, oom, nthreads, nan_cast, out_img, int_out_data, heap,
                 next_row, th, stderr, result, written, calls>>

(***************************************************************************)
(* Lines 222-229: the parallel region.  schedule(dynamic): a thread that   *)
(* has no row takes the next one; nowait: a thread that finds none left    *)
(* goes to the end of the region, where the threads join.                  *)
(***************************************************************************)
\* the sigma argument of line 228
TwoSigmaSq(sigma) == 2 * sigma * sigma

\* an inner loop that ends after the first pixel off the border
NextPixelFirstOnly(row, col) ==
  IF col = 0 /\ in_img.num_cols > 2 /\ ~OnBorder(in_img.num_cols, in_img.num_rows, 1, row)
  THEN 1
  ELSE in_img.num_cols

\* lines 227-228 and line 77: the column of the first call at or after col in
\* row that gets past the border test (num_cols if none does); the calls
\* before it return at line 77 having touched neither buffer
NextPixel(row, col) ==
  LET RECURSIVE Skip(_)
      Skip(c) == IF c >= in_img.num_cols THEN in_img.num_cols
                 ELSE IF OnBorder(in_img.num_cols, in_img.num_rows, c, row)
                      THEN Skip(c + 1)
                      ELSE c
  IN Skip(col)

\* line 227: the thread of row at column col of the inner loop; past the
\* last column the row is finished and the thread asks for another
AtPixel(row, col) ==
  IF col < in_img.num_cols
  THEN [pc |-> "pixel", row |-> row, col |-> col, l |-> NoLocals]
  ELSE IdleThread

\* line 228: calls after thread t has called denoise_pixel_rlsf for the
\* pixels of the columns from..(to - 1) of row
RecordCalls(t, row, from, to) ==
  [p \in DOMAIN calls |->
     IF p \in {row * in_img.num_cols + c : c \in from..(to - 1)}
     THEN Append(calls[p], [thread |-> t, sigma |-> TwoSigmaSq(params.sigma)])
     ELSE calls[p]]

NextChunk(t) ==
  /\ pc = "parallel"
  /\ th[t].pc = "idle"
  /\ IF next_row < in_img.num_rows
     THEN /\ th' = [th EXCEPT ![t] = AtPixel(next_row, NextPixel(next_row, 0))]
          /\ next_row' = next_row + 1
          /\ calls' = RecordCalls(t, next_row, 0, NextPixel(next_row, 0))
     ELSE /\ th' = [th EXCEPT ![t].pc = "done"]
          /\ next_row' = next_row
          /\ calls' = calls
  /\ UNCHANGED <<cw, dev, in_img, alpha_arg, params, abort_on_err, oom, nthreads, nan_cast, pc, out_img, int_in_data,
                 int_out_data, heap, stderr, result, written>>

\* line 227: the inner loop's step after a call of denoise_pixel_rlsf returns
AfterPixel(s) == AtPixel(s.row, NextPixel(s.row, s.col + 1))

\* a call that hands the output buffer in as the buffer to read
TaskInputInPlace == int_out_data

\* line 228: the in_data argument of the call, the buffer the tasks read
TaskInput == int_in_data

\* line 228 and lines 73-93: the call of denoise_pixel_rlsf up to its loop
EnterTask(t) ==
  /\ pc = "parallel"
  /\ th[t].pc = "pixel"
  /\ th' = [th EXCEPT ![t].pc = "loop",
                      ![t].l = EnterPixel(TaskInput, in_img.num_cols, th[t].col, th[t].row)]
  /\ calls' = RecordCalls(t, th[t].row, th[t].col, th[t].col + 1)
  /\ UNCHANGED <<cw, dev, in_img, alpha_arg, params, abort_on_err, oom, nthreads, nan_cast, pc, out_img, int_in_data,
                 int_out_data, heap, next_row, stderr, result, written>>

\* lines 96-153: one iteration of the do-while loop
Iterate(t) ==
  /\ pc = "parallel"
  /\ th[t].pc = "loop"
  /\ LET n == IterateBody(TaskInput, in_img.num_cols, in_img.num_rows, params.r,
                          params.alpha, TwoSigmaSq(params.sigma), th[t].l)
     IN th' = [th EXCEPT ![t].l = n,
                         ![t].pc = IF LoopContinues(n, params.iter) THEN "loop" ELSE "store"]
  /\ UNCHANGED <<cw, dev, in_img, alpha_arg, params, abort_on_err, oom, nthreads, nan_cast, pc, out_img, int_in_data,
                 int_out_data, heap, next_row, stderr, result, written, calls>>

\* lines 155-157: the value the store writes
StoreValue(l) == IF l.nan THEN nan_cast ELSE OutValue(l)

\* a store at the cell the estimate has moved to (pos of line 120)
OutPosCurrent(l) == Round(l.ir) * in_img.num_cols + Round(l.ic)

\* line 81 and line 155: the output cell a call writes
OutPos(l) == l.out_pos

\* a store that also overwrites the cell of the input buffer (filtering in place)
StoreEffectInPlace(l, v) ==
  [in_data  |-> [int_in_data EXCEPT ![OutPos(l)] = v],
   out_data |-> [int_out_data EXCEPT ![OutPos(l)] = v]]

\* line 155: the two packed buffers after the store of v by a call with locals l
StoreEffect(l, v) ==
  [in_data |-> int_in_data, out_data |-> [int_out_data EXCEPT ![OutPos(l)] = v]]

\* lines 155-159: the store of the result and the return; through a NULL
\* int_out_data the store faults
Store(t) ==
  /\ pc = "parallel"
  /\ th[t].pc = "store"
  /\ IF int_out_data = NULL_BUF
     THEN /\ pc' = "crashed"
          /\ UNCHANGED <<int_in_data, int_out_data, th, written, calls>>
     ELSE /\ int_out_data' = StoreEffect(th[t].l, StoreValue(th[t].l)).out_data
          /\ int_in_data' = StoreEffect(th[t].l, StoreValue(th[t].l)).in_data
          /\ written' = [written EXCEPT ![OutPos(th[t].l)] =
                           Append(@, [task |-> <<th[t].row, th[t].col>>, thread |-> t])]
          /\ th' = [th EXCEPT ![t] = AfterPixel(th[t])]
          /\ calls' = RecordCalls(t, th[t].row, th[t].col + 1,
                                  NextPixel(th[t].row, th[t].col + 1))
          /\ pc' = pc
  /\ UNCHANGED <<cw, dev, in_img, alpha_arg, params, abort_on_err, oom, nthreads, nan_cast, out_img, heap,
                 next_row, stderr, result>>

\* lines 234-236: the bytes of an output pixel
UnpackPixel(v) == <<Red(v), Green(v), Blue(v)>>

\* the value a read of cell v yields, an indeterminate one reading as fill
\* (one fill for all the cells of a call)
ReadCell(v, fill) == IF v = Indeterminate THEN fill ELSE v

\* a region the master thread leaves as soon as its own share is done
RegionEndsForMaster == th[1].pc = "done"

\* line 229: the end of the parallel region, where every thread of the team
\* waits for the others (the nowait of line 225 takes away the barrier of the
\* loop only)
RegionEnds == \A t \in Threads : th[t].pc = "done"

\* the end of the parallel region (all threads joined) and lines 231-237: the
\* conversion of the packed output; a NULL int_out_data or out_data faults
ReadBack ==
  /\ pc = "parallel"
  /\ RegionEnds
  /\ IF int_out_data = NULL_BUF \/ out_img = NULL
     THEN pc' = "crashed" /\ out_img' = out_img
     ELSE /\ pc' = "free"
          /\ \E fill \in GarbageFills :
               out_img' = [out_img EXCEPT !.data =
                  [p \in 0..(NumPixels - 1) |-> UnpackPixel(ReadCell(int_out_data[p], fill))]]
  /\ UNCHANGED <<cw, dev, in_img, alpha_arg, params, abort_on_err, oom, nthreads, nan_cast, int_in_data, int_out_data, heap,
                 next_row, th, stderr, result, written, calls>>

\* lines 241-244
FreeAndReturn ==
  /\ pc = "free"
  /\ heap' = heap \ {"int_in_data", "int_out_data"}
  /\ result' = out_img
  /\ pc' = "returned"
  /\ UNCHANGED <<cw, dev, in_img, alpha_arg, params, abort_on_err, oom, nthreads, nan_cast, out_img, int_in_data, int_out_data,
                 next_row, th, stderr, written, calls>>

Next ==
  \/ Validate
  \/ Allocate
  \/ FillInput
  \/ \E t \in Threads : NextChunk(t)
  \/ \E t \in Threads : EnterTask(t)
  \/ \E t \in Threads : Iterate(t)
  \/ \E t \in Threads : Store(t)
  \/ ReadBack
  \/ FreeAndReturn

Spec == Init /\ [][Next]_vars

(***************************************************************************)
(* Calls on uniform-colour images that are at least 2 (r + 2) + 1 wide and *)
(* high, with valid parameters, enough memory and one thread.              *)
(***************************************************************************)
UniformImages ==
  {MakeImage(PIX_RGB, 7, 8, "tinted"), MakeImage(PIX_RGB, 9, 9, "uniform")}

UniformParams ==
  [r : 1..MaxR, alpha : {3, 10}, sigma : {1, 50}, iter : {1, 5}]

LargeEnough(img, radius) ==
  (img.num_rows >= 2 * (radius + 2) + 1) /\ (img.num_cols >= 2 * (radius + 2) + 1)

InitUniform ==
  /\ in_img \in UniformImages
  /\ params \in {p \in UniformParams : LargeEnough(in_img, p.r)}
  /\ alpha_arg = params.alpha
  /\ cw = NoCall
  /\ dev = NoDevice
  /\ abort_on_err = 1
  /\ oom = {}
  /\ nthreads = 1
  /\ nan_cast \in NaNCasts
  /\ pc = "call"
  /\ out_img = NULL
  /\ int_in_data = NULL_BUF
  /\ int_out_data = NULL_BUF
  /\ heap = {}
  /\ next_row = 0
  /\ th = [t \in Threads |-> IdleThread]
  /\ stderr = << >>
  /\ result = NoResult
  /\ written = << >>
  /\ calls = << >>

SpecUniform == InitUniform /\ [][Next]_vars

(***************************************************************************)
(* Calls on uniform-colour images of any size from 5 x 6 up: windows that  *)
(* are whole, cut on one side, and cut on both sides of an axis.           *)
(***************************************************************************)
ClipImages ==
  {MakeImage(PIX_RGB, 7, 7, "tinted"), MakeImage(PIX_RGB, 5, 6, "uniform")}

ClipParams ==
  [r : 1..MaxR, alpha : {3}, sigma : {1}, iter : {1, MaxIter + 1}]

InitClip ==
  /\ in_img \in ClipImages
  /\ params \in ClipParams
  /\ alpha_arg = params.alpha
  /\ cw = NoCall
  /\ dev = NoDevice
  /\ abort_on_err = 1
  /\ oom = {}
  /\ nthreads = 1
  /\ nan_cast \in NaNCasts
  /\ pc = "call"
  /\ out_img = NULL
  /\ int_in_data = NULL_BUF
  /\ int_out_data = NULL_BUF
  /\ heap = {}
  /\ next_row = 0
  /\ th = [t \in Threads |-> IdleThread]
  /\ stderr = << >>
  /\ result = NoResult
  /\ written = << >>
  /\ calls = << >>

SpecClip == InitClip /\ [][Next]_vars

(***************************************************************************)
(* Calls on images whose colours change by a few levels from pixel to      *)
(* pixel, one of them with an outlier, with kernel scales of the same      *)
(* order: the weights of a window take values between 0 and 1.  Valid      *)
(* parameters, enough memory and one thread.                               *)
(***************************************************************************)
SmoothImages ==
  {MakeImage(PIX_RGB, 4, 5, "smooth"), MakeImage(PIX_RGB, 5, 4, "speck")}

SmoothParams ==
  [r : {1}, alpha : {1, 4, 10}, sigma : {2, 5}, iter : {1, MaxIter + 1}]

InitSmooth ==
  /\ in_img \in SmoothImages
  /\ params \in SmoothParams
  /\ alpha_arg = params.alpha
  /\ cw = NoCall
  /\ dev = NoDevice
  /\ abort_on_err = 1
  /\ oom = {}
  /\ nthreads = 1
  /\ nan_cast \in NaNCasts
  /\ pc = "call"
  /\ out_img = NULL
  /\ int_in_data = NULL_BUF
  /\ int_out_data = NULL_BUF
  /\ heap = {}
  /\ next_row = 0
  /\ th = [t \in Threads |-> IdleThread]
  /\ stderr = << >>
  /\ result = NoResult
  /\ written = << >>
  /\ calls = << >>

SpecSmooth == InitSmooth /\ [][Next]_vars

(***************************************************************************)
(* Calls of compute_weight_ms_rlsf alone, followed step by step: the fill  *)
(* of weights[] (lines 30-47), one step per iteration of the selection     *)
(* loop (lines 51-66), and the return (lines 67-68).  cw holds the         *)
(* arguments and the locals weights, i and w of the call; picked is the    *)
(* history of the values tmp took.                                         *)
(***************************************************************************)
\* a packed buffer of the given colours
PackedBlock(colours) ==
  [p \in 0..(Len(colours) - 1) |-> PackPixel(colours[p + 1])]

Grey(x) == <<x, x, x>>

\* the buffers, widths and positions of the calls: one colour everywhere,
\* nine different colours, equal colours and outliers, and a block of width 4
WeightBlocks ==
  { [in_data |-> PackedBlock(<<Grey(7), Grey(7), Grey(7), Grey(7), Grey(7),
                               Grey(7), Grey(7), Grey(7), Grey(7)>>),
     width |-> 3, pos |-> 4],
    [in_data |-> PackedBlock(<<Grey(9), Grey(1), Grey(8), Grey(2), Grey(0),
                               Grey(3), Grey(7), Grey(4), Grey(6)>>),
     width |-> 3, pos |-> 4],
    [in_data |-> PackedBlock(<<Grey(3), Grey(0), Grey(3), Grey(0), Grey(200),
                               Grey(0), Grey(3), Grey(0), Grey(255)>>),
     width |-> 3, pos |-> 4],
    [in_data |-> PackedBlock(<<<<255, 0, 0>>, <<0, 255, 0>>, <<0, 0, 255>>, Grey(1),
                               Grey(2), <<3, 3, 0>>, <<0, 3, 3>>, Grey(77),
                               <<3, 0, 3>>, <<0, 0, 0>>, <<1, 2, 2>>, Grey(5)>>),
     width |-> 4, pos |-> 6] }

\* the colours r, g, b handed in
WeightColours == {Grey(0), Grey(3), Grey(255)}

\* the colours central_pix points to (fixed point: 0, (2.5, 2.5, 2.75), 255)
WeightCentres == {<<0, 0, 0>>, <<40, 40, 44>>, <<4080, 4080, 4080>>}

WeightAlphas == 1..10

\* the sigma argument (2 sigma^2 of the caller)
WeightSigmas == {2, 5000}

InitWeight ==
  /\ cw \in { [NoCall EXCEPT !.pc = "fill", !.in_data = blk.in_data, !.width = blk.width,
                             !.pos = blk.pos, !.r = c[1], !.g = c[2], !.b = c[3],
                             !.alpha = a, !.sigma = s, !.central_pix = cp] :
                blk \in WeightBlocks, c \in WeightColours, cp \in WeightCentres,
                a \in WeightAlphas, s \in WeightSigmas }
  /\ dev = NoDevice
  /\ in_img = NULL
  /\ params = [r |-> 0, alpha |-> 0, sigma |-> 0, iter |-> 0]
  /\ alpha_arg = 0
  /\ abort_on_err = 1
  /\ oom = {}
  /\ nthreads = 1
  /\ nan_cast = 0
  /\ pc = "call"
  /\ out_img = NULL
  /\ int_in_data = NULL_BUF
  /\ int_out_data = NULL_BUF
  /\ heap = {}
  /\ next_row = 0
  /\ th = [t \in Threads |-> IdleThread]
  /\ stderr = << >>
  /\ result = NoResult
  /\ written = << >>
  /\ calls = << >>

\* lines 30-47 and line 49
WeightFill ==
  /\ cw.pc = "fill"
  /\ cw' = [cw EXCEPT !.pc = "select",
                      !.weights = Distances(cw.in_data, cw.width, cw.r, cw.g, cw.b,
                                            cw.pos, cw.central_pix),
                      !.w = 0, !.i = 0]
  /\ UNCHANGED <<dev, in_img, alpha_arg, params, abort_on_err, oom, nthreads, nan_cast, pc,
                 out_img, int_in_data, int_out_data, heap, next_row, th, stderr,
                 result, written, calls>>

\* line 51: the condition of the selection loop
SelectContinues == (cw.i < cw.alpha) /\ (cw.i < 9)

\* lines 51-66: one iteration of the selection loop
WeightSelect ==
  /\ cw.pc = "select"
  /\ SelectContinues
  /\ LET tmp == ArgMin(cw.weights)
     IN cw' = [cw EXCEPT !.w = cw.w + cw.weights[tmp],
                         !.weights = [cw.weights EXCEPT ![tmp] = Inf],
                         !.i = cw.i + 1,
                         !.picked = Append(cw.picked, tmp - 1)]
  /\ UNCHANGED <<dev, in_img, alpha_arg, params, abort_on_err, oom, nthreads, nan_cast, pc,
                 out_img, int_in_data, int_out_data, heap, next_row, th, stderr,
                 result, written, calls>>

\* lines 67-69: w / alpha / sigma, expf and the return of w
WeightReturn ==
  /\ cw.pc = "select"
  /\ ~SelectContinues
  /\ cw' = [cw EXCEPT !.pc = "returned", !.w = ExpNeg(cw.w, cw.alpha * cw.sigma)]
  /\ UNCHANGED <<dev, in_img, alpha_arg, params, abort_on_err, oom, nthreads, nan_cast, pc,
                 out_img, int_in_data, int_out_data, heap, next_row, th, stderr,
                 result, written, calls>>

NextWeight == WeightFill \/ WeightSelect \/ WeightReturn

SpecWeight == InitWeight /\ [][NextWeight]_vars

(***************************************************************************)
(* Properties.                                                             *)
(***************************************************************************)
\* the row and the column of cell p of the image
RowOf(p) == p \div in_img.num_cols

ColOf(p) == p % in_img.num_cols

\* cell p lies within k cells of an edge of the image
NearEdge(p, k) ==
  \/ RowOf(p) < k
  \/ RowOf(p) >= in_img.num_rows - k
  \/ ColOf(p) < k
  \/ ColOf(p) >= in_img.num_cols - k

\* the parallel region has ended and the packed output has been converted
PassOver == pc \in {"free", "returned"} /\ out_img # NULL

\* C1: a call of denoise_pixel_rlsf runs its loop body at least once and at
\* most iter times: inside the loop the counter is below iter, and when the
\* loop is left it is between 1 and iter.
C1_IterationBound ==
  \A t \in Threads :
    /\ th[t].pc = "loop" => /\ th[t].l.iter_count < params.iter
                            /\ th[t].l.iter_count >= 0
    /\ th[t].pc = "store" => /\ th[t].l.iter_count >= 1
                             /\ th[t].l.iter_count <= params.iter

\* a call that left its loop because the counter reached iter, iter > 1
C1_Witness ==
  \E t \in Threads :
    th[t].pc = "store" /\ th[t].l.iter_count = params.iter /\ params.iter >= 2

\* C2 (as claimed): no cell within r + 1 of an edge is written by the pass;
\* it keeps the value it had before the pass.
C2_Original ==
  int_out_data # NULL_BUF =>
    \A p \in DOMAIN written :
      NearEdge(p, params.r + 1) =>
        written[p] = << >> /\ int_out_data[p] = Indeterminate

\* C2 (amended): no cell of the outermost ring (row or column 0 or
\* dimension - 1) is written by the pass, whatever r is; it keeps the value it
\* had before the pass.
C2_BorderNeverWritten ==
  int_out_data # NULL_BUF =>
    \A p \in DOMAIN written :
      NearEdge(p, 1) => written[p] = << >> /\ int_out_data[p] = Indeterminate

\* a finished pass that wrote some cell and left the ring alone
C2_Witness ==
  /\ pc = "returned"
  /\ result # NULL
  /\ \E p \in DOMAIN written : written[p] # << >>
  /\ \E p \in DOMAIN written : NearEdge(p, 1) /\ int_out_data[p] = Indeterminate

\* every pixel of the image has the colour of pixel 0
IsUniform(img) == \A p \in DOMAIN img.data : img.data[p] = img.data[0]

\* C3: a uniform-colour image with at least 2 (r + 2) + 1 rows and columns
\* comes back with every pixel outside the (r + 1)-wide border equal to the
\* input colour; so does the 9 x 9 image of (128,128,128) with r = 1,
\* alpha = 3, sigma = 50, iter = 5 at rows and columns 2..6.
C3_UniformInterior ==
  (PassOver /\ IsUniform(in_img) /\ LargeEnough(in_img, params.r)) =>
    \A p \in DOMAIN in_img.data :
      ~NearEdge(p, params.r + 1) =>
        /\ out_img.data[p] = in_img.data[p]
        /\ int_out_data[p] = PackPixel(in_img.data[p])

\* the 9 x 9 scenario has returned its image
C3_Witness ==
  /\ pc = "returned"
  /\ result # NULL
  /\ in_img = MakeImage(PIX_RGB, 9, 9, "uniform")
  /\ params = [r |-> 1, alpha |-> 3, sigma |-> 50, iter |-> 5]
  /\ \A row \in 2..6, col \in 2..6 : result.data[row * 9 + col] = <<128, 128, 128>>

\* every read of in_data by a pixel task is inside the block: the cell of the
\* task, the cells of its next window and the 3x3 neighbourhood of its position
ReadsInBlock ==
  \A t \in Threads :
    th[t].pc = "loop" =>
      LET l   == th[t].l
          win == Window(l, in_img.num_cols, in_img.num_rows, params.r)
          pos == Round(l.ir) * in_img.num_cols + Round(l.ic)
      IN /\ l.out_pos \in DOMAIN TaskInput
         /\ \A i \in win.istart..win.iend, j \in win.jstart..win.jend :
              i * in_img.num_cols + j \in DOMAIN TaskInput
         /\ \A a \in 0..8 : NeighbourIndex(in_img.num_cols, pos, a) \in DOMAIN TaskInput

\* the threads of the parallel region have joined: every pixel task has returned
PassDone ==
  \/ pc = "parallel" /\ \A t \in Threads : th[t].pc = "done"
  \/ pc \in {"free", "returned"}

\* the pixel task <<row, col>> whose own cell is p
TaskOf(p) == <<RowOf(p), ColOf(p)>>

\* C4 (as claimed): when the pass is over, every cell of the output working
\* buffer has been written exactly once.
C4_Original ==
  (PassDone /\ int_out_data # NULL_BUF) =>
    \A p \in DOMAIN written : Len(written[p]) = 1

\* C4 (amended): no cell of the output working buffer is ever written more
\* than once, a cell is written only by the pixel task of that cell, the cells
\* of the outermost ring are never written, and when the pass is over every
\* other cell has been written exactly once.
C4_WrittenOnce ==
  int_out_data # NULL_BUF =>
    \A p \in DOMAIN written :
      /\ Len(written[p]) <= 1
      /\ \A k \in DOMAIN written[p] : written[p][k].task = TaskOf(p)
      /\ NearEdge(p, 1) => written[p] = << >>
      /\ (PassDone /\ ~NearEdge(p, 1)) => Len(written[p]) = 1

\* a pass of two threads is over and two cells were written, each once and by
\* its own task, the two tasks run by different threads
C4_Witness ==
  /\ PassDone
  /\ nthreads = 2
  /\ \E p, q \in DOMAIN written :
       /\ p # q
       /\ written[p] = <<[task |-> TaskOf(p), thread |-> 1]>>
       /\ written[q] = <<[task |-> TaskOf(q), thread |-> 2]>>

\* lines 218-220: the packed input as a function of the caller's image
PackedInput == [p \in 0..(NumPixels - 1) |-> PackPixel(in_img.data[p])]

\* the locals with which the call of denoise_pixel_rlsf for cell p leaves its
\* loop when it runs alone, start to end, on the packed input
SequentialLocals(p) ==
  RunLoop(int_in_data, in_img.num_cols, in_img.num_rows, params.r, params.alpha,
          TwoSigmaSq(params.sigma), params.iter,
          EnterPixel(int_in_data, in_img.num_cols, ColOf(p), RowOf(p)))

\* the content of output cell p after a pass that runs the pixel tasks one
\* after the other in one thread
SequentialOutput(p) ==
  IF OnBorder(in_img.num_cols, in_img.num_rows, ColOf(p), RowOf(p))
  THEN Indeterminate
  ELSE LET l == SequentialLocals(p) IN IF l.nan THEN nan_cast ELSE OutValue(l)

\* C5: whatever rows the threads took and however their steps interleaved,
\* when the parallel pass is over the packed input is still the packed image
\* and the output buffer is, cell for cell, the buffer of the sequential pass
\* on that input with the same parameters.
C5_ScheduleIndependent ==
  (PassDone /\ int_out_data # NULL_BUF) =>
    /\ int_in_data = PackedInput
    /\ \A p \in DOMAIN int_out_data : int_out_data[p] = SequentialOutput(p)

\* a pass of two threads is over in which the later row was run by thread 1
\* and the earlier by thread 2, and the filter changed a colour
C5_Witness ==
  /\ PassDone
  /\ nthreads = 2
  /\ \E p, q \in DOMAIN written :
       /\ written[p] # << >> /\ written[q] # << >>
       /\ p < q /\ written[p][1].thread = 2 /\ written[q][1].thread = 1
  /\ \E p \in DOMAIN written : written[p] # << >> /\ int_out_data[p] # PackedInput[p]

\* C6: no step of a call changes the caller's image, and once the packed
\* input buffer is filled no step changes it either, up to the return and on
\* every path that ends the call.
C6_InputUntouched ==
  [][/\ in_img' = in_img
     /\ (pc \notin {"call", "alloc", "fill"}) => int_in_data' = int_in_data]_vars

\* a call has returned its image after tasks stored their results, and the
\* packed input is still the packed image
C6_Witness ==
  /\ pc = "returned"
  /\ result # NULL
  /\ \E p \in DOMAIN written : written[p] # << >> /\ int_out_data[p] # PackedInput[p]
  /\ int_in_data = PackedInput

\* one of r, alpha, sigma, iter of the call is not strictly positive (alpha is
\* only ever clamped from above, so the sign of params.alpha is the caller's)
NonPositiveParam ==
  (params.r <= 0) \/ (params.alpha <= 0) \/ (params.sigma <= 0) \/ (params.iter <= 0)

\* the message of the check that rejects the first non-positive parameter
NonPositiveMessage ==
  IF params.r <= 0 THEN "Window size must be positive !"
  ELSE IF params.alpha <= 0 THEN "Alpha value must be positive !"
  ELSE IF params.sigma <= 0 THEN "Sigma value must be positive !"
  ELSE "Numer of iterations must be positive !"

\* C7: with a non-positive r, alpha, sigma or iter a call never gets past its
\* checks and returns no image; on a colour image, where the parameter checks
\* are reached, it returns NULL after the message of the first non-positive
\* parameter, whatever the other three are.
C7_NonPositiveRejected ==
  NonPositiveParam =>
    /\ pc \in {"call", "returned", "aborted"}
    /\ pc = "returned" => (result = NULL /\ stderr # << >>)
    /\ is_rgb_img(in_img) =>
         /\ pc # "aborted"
         /\ pc = "returned" => stderr = <<NonPositiveMessage>>

\* a call on a colour image with only iter non-positive has returned NULL
C7_Witness ==
  /\ pc = "returned"
  /\ result = NULL
  /\ is_rgb_img(in_img)
  /\ params = [r |-> 2, alpha |-> 10, sigma |-> 1, iter |-> 0]
  /\ stderr = <<"Numer of iterations must be positive !">>

\* a precondition of the call does not hold
PreconditionFails == ~is_rgb_img(in_img) \/ NonPositiveParam

\* C8 (as claimed): a call with a non-colour image, a non-positive parameter
\* or a failing allocation never ends the process, under either error mode,
\* and what it returns is no image.
C8_NoFailureTerminates ==
  (PreconditionFails \/ oom # {}) =>
    /\ pc \notin {"aborted", "crashed"}
    /\ pc = "returned" => result = NULL

\* C9 (as claimed): a call whose preconditions hold and for which the
\* allocation of the output image or of a packed buffer fails returns NULL
\* after the out-of-memory message with nothing left allocated, and no pixel
\* task runs while a buffer is missing.
C9_AllocationFailureReleases ==
  (~PreconditionFails /\ oom # {}) =>
    /\ pc \notin {"aborted", "crashed"}
    /\ pc = "returned" =>
         (result = NULL /\ heap = {} /\ stderr = <<"Insufficient memory !">>)
    /\ pc = "parallel" => \A t \in Threads : th[t].pc \in {"idle", "done"}

\* img is a whole output image of the call: the type and size of the input,
\* every pixel converted from the output buffer, every pixel off the
\* outermost ring computed by its task
CompleteImage(img) ==
  /\ img.type = PIX_RGB
  /\ img.num_rows = in_img.num_rows
  /\ img.num_cols = in_img.num_cols
  /\ DOMAIN img.data = 0..(NumPixels - 1)
  /\ \A p \in DOMAIN img.data :
       ~NearEdge(p, 1) =>
         (written[p] # << >> /\ img.data[p] = UnpackPixel(int_out_data[p]))

\* C10: while a precondition fails nothing is allocated and no pixel task
\* has started, so allocations and tasks come after all five checks; and a
\* call that returns returns NULL or a whole image.
C10_ChecksFirst ==
  /\ PreconditionFails =>
       /\ pc \in {"call", "returned", "aborted"}
       /\ heap = {}
       /\ out_img = NULL /\ int_in_data = NULL_BUF /\ int_out_data = NULL_BUF
       /\ written = << >>
       /\ next_row = 0
       /\ \A t \in Threads : th[t] = IdleThread
       /\ pc = "returned" => result = NULL
  /\ pc = "returned" => (result = NULL \/ CompleteImage(result))

\* a call with only iter non-positive, the last check, has returned NULL with
\* nothing allocated
C10_Witness ==
  /\ pc = "returned"
  /\ is_rgb_img(in_img)
  /\ params.r > 0 /\ params.alpha > 0 /\ params.sigma > 0 /\ params.iter <= 0
  /\ heap = {}
  /\ written = << >>
  /\ result = NULL

\* the content of output cell p after a pass that runs the pixel tasks one
\* after the other with a as the alpha of every weight evaluation
SequentialOutputAlpha(p, a) ==
  IF OnBorder(in_img.num_cols, in_img.num_rows, ColOf(p), RowOf(p))
  THEN Indeterminate
  ELSE StoreValue(RunLoop(int_in_data, in_img.num_cols, in_img.num_rows, params.r, a,
                          TwoSigmaSq(params.sigma), params.iter,
                          EnterPixel(int_in_data, in_img.num_cols, ColOf(p), RowOf(p))))

\* C11: an alpha above 9 is clamped to 9 without a message: while a pixel task
\* runs, the alpha its weight evaluations receive is min(alpha passed, 9) and
\* lies in 1..9, and a call with alpha above 9 returns, cell for cell, the
\* output of the pass with alpha = 9 (the cells of the outermost ring, which no
\* pass writes, aside).
C11_AlphaClamped ==
  /\ \A t \in Threads :
       th[t].pc \in {"pixel", "loop", "store"} =>
         /\ params.alpha \in 1..9
         /\ params.alpha = MIN(alpha_arg, 9)
  /\ (pc = "returned" /\ result # NULL /\ alpha_arg > 9) =>
       /\ stderr = << >>
       /\ \A p \in DOMAIN int_out_data :
            /\ int_out_data[p] = SequentialOutputAlpha(p, 9)
            /\ ~NearEdge(p, 1) => result.data[p] = UnpackPixel(SequentialOutputAlpha(p, 9))

\* a call with alpha = 10 has returned an image in which the filter changed a
\* colour
C11_Witness ==
  /\ pc = "returned"
  /\ result # NULL
  /\ alpha_arg = 10
  /\ params.alpha = 9
  /\ \E p \in DOMAIN in_img.data : ~NearEdge(p, 1) /\ result.data[p] # in_img.data[p]

\* the call followed step by step returns what the operator of the pixel
\* tasks computes from the same arguments
StepwiseAgrees ==
  cw.pc = "returned" =>
    cw.w = compute_weight_ms_rlsf(cw.in_data, cw.width, cw.r, cw.g, cw.b, cw.pos,
                                  cw.alpha, cw.sigma, cw.central_pix)

\* the nine squared distances of the followed call, weights[a] = CallDistances[a + 1]
CallDistances ==
  Distances(cw.in_data, cw.width, cw.r, cw.g, cw.b, cw.pos, cw.central_pix)

\* the sum of the distances D of the cells of S
SumOver(D, S) ==
  LET RECURSIVE Sum(_)
      Sum(T) == IF T = {} THEN 0
                ELSE LET k == CHOOSE x \in T : TRUE IN D[k + 1] + Sum(T \ {k})
  IN Sum(S)

\* the least sum n of the nine distances D can have
SmallestSum(D, n) ==
  LET sums == {SumOver(D, S) : S \in {T \in SUBSET (0..8) : Cardinality(T) = n}}
  IN CHOOSE m \in sums : \A x \in sums : m <= x

\* the cells selected so far by the followed call
PickedCells == {cw.picked[k] : k \in DOMAIN cw.picked}

\* C12: after i iterations of the selection loop w is the sum of the i
\* smallest of the nine squared distances, taken as a multiset: no cell is
\* selected twice, no cell left is smaller than a selected one, and of equal
\* cells the one filled first is selected first.  For alpha in 1..9 the loop
\* ends after alpha selections, so w / alpha is the mean of the alpha smallest
\* distances; for alpha = 1 it is the smallest distance.
C12_TrimmedMean ==
  cw.pc = "select" =>
    LET D == CallDistances
    IN /\ Len(cw.picked) = cw.i
       /\ Cardinality(PickedCells) = cw.i
       /\ cw.w = SumOver(D, PickedCells)
       /\ cw.w = SmallestSum(D, cw.i)
       /\ \A p \in PickedCells, q \in (0..8) \ PickedCells :
            (D[p + 1] < D[q + 1]) \/ (D[p + 1] = D[q + 1] /\ p < q)
       /\ \A k \in 1..(cw.i - 1) :
            \/ D[cw.picked[k] + 1] < D[cw.picked[k + 1] + 1]
            \/ D[cw.picked[k] + 1] = D[cw.picked[k + 1] + 1] /\ cw.picked[k] < cw.picked[k + 1]
       /\ (~SelectContinues /\ cw.alpha <= 9) => cw.i = cw.alpha
       /\ (~SelectContinues /\ cw.alpha = 1) => \A a \in 1..9 : cw.w <= D[a]

\* a call with alpha = 3 has left its selection loop having selected the first
\* three of four cells of distance 0, in the order of their filling
C12_Witness ==
  /\ cw.pc = "select"
  /\ ~SelectContinues
  /\ cw.alpha = 3
  /\ cw.picked = <<1, 3, 5>>
  /\ CallDistances[8] = 0
  /\ cw.w = 0

\* C13: at the start of every iteration of every pixel task the window is
\* non-empty and inside the ring on both axes, 1 <= start <= end <=
\* dimension - 2, with start = max(round(position) - r - 1, 1) and
\* end = min(round(position) + r + 1, dimension - 2); it holds the cell of the
\* rounded position.
C13_WindowInRing ==
  \A t \in Threads :
    th[t].pc = "loop" =>
      LET l   == th[t].l
          win == Window(l, in_img.num_cols, in_img.num_rows, params.r)
      IN /\ 1 <= win.istart /\ win.istart <= win.iend /\ win.iend <= in_img.num_rows - 2
         /\ 1 <= win.jstart /\ win.jstart <= win.jend /\ win.jend <= in_img.num_cols - 2
         /\ win.istart <= Round(l.ir) /\ Round(l.ir) <= win.iend
         /\ win.jstart <= Round(l.ic) /\ Round(l.ic) <= win.jend
         /\ win.istart = MAX(Round(l.ir) - params.r - 1, 1)
         /\ win.iend = MIN(Round(l.ir) + params.r + 1, in_img.num_rows - 2)
         /\ win.jstart = MAX(Round(l.ic) - params.r - 1, 1)
         /\ win.jend = MIN(Round(l.ic) + params.r + 1, in_img.num_cols - 2)

\* a task enters a later iteration at a position off its own cell, with a
\* window cut by the ring above and reaching its full extent below
C13_Witness ==
  \E t \in Threads :
    /\ th[t].pc = "loop"
    /\ th[t].l.iter_count >= 1
    /\ Round(th[t].l.ir) # th[t].row
    /\ Round(th[t].l.ir) - params.r - 1 < 1
    /\ Round(th[t].l.ir) + params.r + 1 < in_img.num_rows - 2

\* C14: every index at which a pixel task reads the packed input is inside
\* the buffer and is the index of a cell of the image, 0 <= row < num_rows and
\* 0 <= col < num_cols: the task's own cell, the cells of the window of each
\* iteration, and the 3x3 cells around the rounded position that the weight
\* evaluations of that iteration read.
C14_ReadsInside ==
  /\ ReadsInBlock
  /\ \A t \in Threads :
       /\ th[t].pc = "pixel" =>
            /\ th[t].row \in 0..(in_img.num_rows - 1)
            /\ th[t].col \in 0..(in_img.num_cols - 1)
            /\ th[t].row * in_img.num_cols + th[t].col \in DOMAIN TaskInput
       /\ th[t].pc = "loop" =>
            LET l   == th[t].l
                win == Window(l, in_img.num_cols, in_img.num_rows, params.r)
                pos == Round(l.ir) * in_img.num_cols + Round(l.ic)
            IN /\ DOMAIN TaskInput = 0..(NumPixels - 1)
               /\ win.istart >= 0 /\ win.iend < in_img.num_rows
               /\ win.jstart >= 0 /\ win.jend < in_img.num_cols
               /\ \A a \in 0..8 :
                    LET q == NeighbourIndex(in_img.num_cols, pos, a)
                    IN /\ RowOf(q) = Round(l.ir) + (a \div 3) - 1
                       /\ ColOf(q) = Round(l.ic) + (a % 3) - 1
                       /\ RowOf(q) \in 0..(in_img.num_rows - 1)
                       /\ ColOf(q) \in 0..(in_img.num_cols - 1)

\* a task whose weight evaluations read the first cell of the buffer, and a
\* task in a later iteration whose evaluations read the last
C14_Witness ==
  /\ \E t \in Threads :
       /\ th[t].pc = "loop"
       /\ NeighbourIndex(in_img.num_cols,
                         Round(th[t].l.ir) * in_img.num_cols + Round(th[t].l.ic), 0) = 0
  /\ \E t \in Threads :
       /\ th[t].pc = "loop"
       /\ th[t].l.iter_count >= 1
       /\ NeighbourIndex(in_img.num_cols,
                         Round(th[t].l.ir) * in_img.num_cols + Round(th[t].l.ic), 8)
            = NumPixels - 1

\* C15 (as claimed): the weight a call with alpha in 1..9 and a positive sigma
\* argument returns lies in (0, 1]: it is never zero and never above 1.
C15_WeightInUnitInterval ==
  (cw.pc = "returned" /\ cw.alpha \in 1..9 /\ cw.sigma > 0) =>
    (0 < cw.w /\ cw.w <= WScale)

(***************************************************************************)
(* Calls that keep running: the process is not stopped from outside, so a  *)
(* call that can take a step takes one.  Nothing is assumed about which    *)
(* thread of the team runs.                                                *)
(***************************************************************************)
\* the calls whose checks pass and whose allocations are granted
InitValid ==
  /\ Init
  /\ ~(~is_rgb_img(in_img) \/ ~IS_POS(params.r) \/ ~IS_POS(params.alpha)
        \/ ~IS_POS(params.sigma) \/ ~IS_POS(params.iter))
  /\ oom = {}

\* the call has ended: it has returned, or the process has been ended
Halted == pc \in {"returned", "aborted", "crashed"}

\* weak fairness of Next, WF_vars(Next), with ENABLED <<Next>>_vars written
\* out: some step of Next can be taken exactly while the call has not ended
\* (in the parallel region a thread that is not done has a step, and when all
\* are done the region ends)
FairNext == []<>Halted \/ []<><<Next>>_vars

SpecFair == InitValid /\ [][Next]_vars /\ FairNext

\* thread t is inside a call of denoise_pixel_rlsf
InTask(t) == t \in Threads /\ th[t].pc \in {"pixel", "loop", "store"}

\* C16: a call with a colour image, positive parameters and its three
\* allocations granted always ends: every pixel task a thread is in leaves its
\* loop and returns, the parallel region ends, and the call returns its image.
C16_PassTerminates ==
  /\ (pc = "call" /\ ~PreconditionFails /\ oom = {})
       ~> (pc = "returned" /\ result # NULL /\ heap = {"out_img"})
  /\ \A t \in 1..NumThreads :
       (InTask(t) /\ oom = {}) ~> (t \in Threads /\ th[t].pc \in {"idle", "done"})
  /\ \A t \in 1..NumThreads :
       (t \in Threads /\ th[t].pc = "loop" /\ oom = {})
         ~> (t \in Threads /\ th[t].pc = "store")

\* a call of two threads has returned its image after a task ran its loop
\* iter = 2 times
C16_Witness ==
  /\ pc = "returned"
  /\ result # NULL
  /\ nthreads = 2
  /\ params.iter = 2
  /\ \A t \in Threads : th[t].pc = "done"
  /\ \E p \in DOMAIN written : written[p] # << >>

(***************************************************************************)
(* The accelerator backend, CUDA_filter_ms_rlsf.  Only its declaration     *)
(* (image.h) and its call (main_ms_rlsf.cpp) are in the repository's       *)
(* files; what follows is its description: the packed input is copied to   *)
(* the device, one thread per pixel runs the pixel task (the threads of    *)
(* the skipped pixels return at once and are left out), and after a        *)
(* barrier the results are copied back and unpacked.  Skipped pixels are   *)
(* left at the output buffer's default value, which nothing sets.          *)
(***************************************************************************)
\* the cells whose threads run the loop
KernelPixels ==
  {p \in 0..(NumPixels - 1) :
     ~OnBorder(in_img.num_cols, in_img.num_rows, ColOf(p), RowOf(p))}

\* the copy of the packed input to the device and the launch of the grid, for
\* the call the host backend has answered: one thread per pixel, the threads
\* of the outermost ring ending at once
DeviceCopyIn ==
  /\ pc = "returned"
  /\ result # NULL
  /\ dev.pc = "off"
  /\ \E nc \in NaNCasts :
       dev' = [dev EXCEPT !.pc = "kernel",
                          !.in_data = PackedInput,
                          !.out_data = [p \in 0..(NumPixels - 1) |-> Indeterminate],
                          !.l = [p \in 0..(NumPixels - 1) |->
                                   IF p \in KernelPixels
                                   THEN EnterPixel(PackedInput, in_img.num_cols,
                                                   ColOf(p), RowOf(p))
                                   ELSE NoLocals],
                          !.loop = KernelPixels,
                          !.nan_cast = nc]
  /\ UNCHANGED <<cw, in_img, alpha_arg, params, abort_on_err, oom, nthreads, nan_cast, pc,
                 out_img, int_in_data, int_out_data, heap, next_row, th, stderr,
                 result, written, calls>>

\* the device after the thread of pixel p has ended an iteration with locals n
AfterKernelIterate(p, n) ==
  [dev EXCEPT !.l[p] = n,
              !.loop = IF LoopContinues(n, params.iter) THEN @ ELSE @ \ {p},
              !.store = IF LoopContinues(n, params.iter) THEN @ ELSE @ \cup {p}]

\* one iteration of the loop of the thread of pixel p
KernelIterate(p) ==
  /\ dev.pc = "kernel"
  /\ p \in dev.loop
  /\ dev' = AfterKernelIterate(p, IterateBody(dev.in_data, in_img.num_cols,
                                              in_img.num_rows, params.r, params.alpha,
                                              TwoSigmaSq(params.sigma), dev.l[p]))
  /\ UNCHANGED <<cw, in_img, alpha_arg, params, abort_on_err, oom, nthreads, nan_cast, pc,
                 out_img, int_in_data, int_out_data, heap, next_row, th, stderr,
                 result, written, calls>>

\* the store of the thread of pixel p and its end
KernelStore(p) ==
  /\ dev.pc = "kernel"
  /\ p \in dev.store
  /\ LET l == dev.l[p]
         v == IF l.nan THEN dev.nan_cast ELSE OutValue(l)
     IN dev' = [dev EXCEPT !.out_data[l.out_pos] = v,
                           !.store = @ \ {p},
                           !.done = @ \cup {p}]
  /\ UNCHANGED <<cw, in_img, alpha_arg, params, abort_on_err, oom, nthreads, nan_cast, pc,
                 out_img, int_in_data, int_out_data, heap, next_row, th, stderr,
                 result, written, calls>>

\* the barrier, the copy of the results to the host and their unpacking
DeviceCopyOut ==
  /\ dev.pc = "kernel"
  /\ dev.done = KernelPixels
  /\ \E fill \in GarbageFills :
       dev' = [dev EXCEPT !.pc = "done",
                          !.img = [ZeroImage(in_img.num_rows, in_img.num_cols) EXCEPT !.data =
                             [p \in 0..(NumPixels - 1) |->
                                UnpackPixel(ReadCell(dev.out_data[p], fill))]]]
  /\ UNCHANGED <<cw, in_img, alpha_arg, params, abort_on_err, oom, nthreads, nan_cast, pc,
                 out_img, int_in_data, int_out_data, heap, next_row, th, stderr,
                 result, written, calls>>

\* one call answered by the host backend, then by the accelerator
NextBackends ==
  \/ Next
  \/ DeviceCopyIn
  \/ \E p \in KernelPixels : KernelIterate(p)
  \/ \E p \in KernelPixels : KernelStore(p)
  \/ DeviceCopyOut

InitBackends == InitValid /\ nthreads = 1 /\ abort_on_err = 1

SpecBackends == InitBackends /\ [][NextBackends]_vars

\* |x - y|
AbsDiff(x, y) == IF x > y THEN x - y ELSE y - x

\* C17 (as claimed): when both backends have answered the same call, their
\* images differ by at most 1 in every channel of every pixel.
C17_BackendsAgree ==
  dev.pc = "done" =>
    \A p \in DOMAIN result.data : \A c \in 1..3 :
      AbsDiff(result.data[p][c], dev.img.data[p][c]) <= 1

\* diff <= 0 for the diff of locals l; a NaN diff is not below or equal to 0
DiffNotPositive(l) == ~l.nan /\ l.diff <= 0

\* C18 (as claimed): a task leaves its loop exactly when iter_count >= iter or
\* diff <= 0, diff being the squared change of the colour plus the squared
\* change of the position in the last iteration: a task that has left it
\* satisfies one of the two, a task that goes on satisfies neither, and a task
\* whose position moved goes on while iter_count < iter even if its colour did
\* not change.
C18_StopsExactlyWhen ==
  /\ \A t \in Threads :
       /\ th[t].pc = "store" =>
            (th[t].l.iter_count >= params.iter \/ DiffNotPositive(th[t].l))
       /\ (th[t].pc = "loop" /\ th[t].l.iter_count >= 1) =>
            (th[t].l.iter_count < params.iter /\ ~DiffNotPositive(th[t].l))

\* thread t returns from a pixel task in this step
Returns(t) == th[t].pc = "store" /\ th'[t] # th[t]

\* C19: the step in which a task returns stores the packed truncation of its
\* final colour estimate in one cell of the output buffer, the cell
\* row * width + col of the pixel the task was started for, wherever its
\* position has moved to, and changes no other cell; no other step of a task
\* changes the output buffer.
C19_StoresOwnCell ==
  [][/\ \A t \in Threads :
          Returns(t) =>
            LET own == th[t].row * in_img.num_cols + th[t].col
            IN /\ own \in DOMAIN int_out_data
               /\ int_out_data' = [int_out_data EXCEPT ![own] = StoreValue(th[t].l)]
               /\ \A p \in DOMAIN written :
                    written'[p] = IF p = own
                                  THEN Append(written[p],
                                              [task |-> <<th[t].row, th[t].col>>, thread |-> t])
                                  ELSE written[p]
     /\ (pc = "parallel" /\ int_out_data' # int_out_data) =>
          \E t \in Threads : Returns(t)]_vars

\* a task is about to store with its position off the pixel it was started
\* for, having changed the colour, and the store goes to the cell of that pixel
C19_Witness ==
  \E t \in Threads :
    /\ th[t].pc = "store"
    /\ ~th[t].l.nan
    /\ <<Round(th[t].l.ir), Round(th[t].l.ic)>> # <<th[t].row, th[t].col>>
    /\ OutValue(th[t].l) # int_in_data[th[t].row * in_img.num_cols + th[t].col]
    /\ OutPos(th[t].l) = th[t].row * in_img.num_cols + th[t].col
    /\ int_out_data # NULL_BUF

\* the cells of the 3x3 neighbourhood a call with argument pos reads, the
\* centre aside (the centre is taken from central_pix)
CellsRead(width, pos) == {NeighbourIndex(width, pos, a) : a \in (0..8) \ {4}}

\* the window cells <<i, j>> of the next iteration of the task with locals l
WindowCells(l) ==
  LET win == Window(l, in_img.num_cols, in_img.num_rows, params.r)
  IN (win.istart..win.iend) \X (win.jstart..win.jend)

\* C20 (as claimed): for every window cell q of every iteration, the nine
\* cells whose colours enter the weight of q are the 3x3 cells centred on q.
C20_Original ==
  \A t \in Threads :
    th[t].pc = "loop" =>
      \A c \in WindowCells(th[t].l) :
        CallPos(in_img.num_cols, th[t].l, c[1], c[2]) = c[1] * in_img.num_cols + c[2]

\* C20 (amended): for every window cell q of every iteration, the colours
\* that enter the weight of q are the colour of q, the colours of the eight
\* cells around the rounded current position of the task, the same eight for
\* every q of the window, and, for the centre, the colour estimate the
\* iteration started with; the cells around q enter only where they are
\* among those.
C20_NeighbourhoodOfPosition ==
  \A t \in Threads :
    th[t].pc = "loop" =>
      LET l     == th[t].l
          width == in_img.num_cols
          row   == Round(l.ir)
          col   == Round(l.ic)
      IN \A c \in WindowCells(l) :
           LET q  == UnpackPixel(TaskInput[c[1] * width + c[2]])
               at == CallPos(width, l, c[1], c[2])
           IN /\ CellsRead(width, at)
                   = {i * width + j : i \in (row - 1)..(row + 1),
                                      j \in (col - 1)..(col + 1)} \ {row * width + col}
              /\ CellWeight(TaskInput, width, l, params.alpha,
                            TwoSigmaSq(params.sigma), c[1], c[2])
                   = compute_weight_ms_rlsf(TaskInput, width, q[1], q[2], q[3],
                                            row * width + col, params.alpha,
                                            TwoSigmaSq(params.sigma), <<l.r, l.g, l.b>>)

\* a task in a later iteration has in its window a cell q other than its
\* rounded position, and the weight of q is not the one the 3x3 cells centred
\* on q would give
C20_Witness ==
  \E t \in Threads :
    /\ th[t].pc = "loop"
    /\ th[t].l.iter_count >= 1
    /\ \E c \in WindowCells(th[t].l) :
         LET l     == th[t].l
             width == in_img.num_cols
             q     == UnpackPixel(TaskInput[c[1] * width + c[2]])
         IN /\ c[1] * width + c[2] # CallPos(width, l, c[1], c[2])
            /\ CellWeight(TaskInput, width, l, params.alpha,
                          TwoSigmaSq(params.sigma), c[1], c[2])
                 # compute_weight_ms_rlsf(TaskInput, width, q[1], q[2], q[3],
                                          c[1] * width + c[2], params.alpha,
                                          TwoSigmaSq(params.sigma), <<l.r, l.g, l.b>>)

(***************************************************************************)
(* The colours the nine squared distances of a call are measured between.  *)
(***************************************************************************)
\* the colour neighbourhood cell a = 0..8 of the followed call contributes
\* (scaled by FScale): central_pix for the centre, the stored colour otherwise
CellColour(a) ==
  IF a = 4 THEN cw.central_pix
  ELSE LET c == UnpackPixel(cw.in_data[NeighbourIndex(cw.width, cw.pos, a)])
       IN <<c[1] * FScale, c[2] * FScale, c[3] * FScale>>

\* the colour r, g, b handed to the followed call (scaled by FScale)
CandidateColour == <<cw.r * FScale, cw.g * FScale, cw.b * FScale>>

SqDist(x, y) == Sq(x[1] - y[1]) + Sq(x[2] - y[2]) + Sq(x[3] - y[3])

\* weights[] of the followed call is filled and nothing of it is consumed
Filled == cw.pc = "select" /\ cw.i = 0

\* C21 (as claimed): each of the nine squared distances is measured from the
\* colour of a neighbourhood cell, the centre contributing the reference
\* colour, to the reference colour (central_pix, the colour estimate).
C21_Original ==
  Filled => \A a \in 0..8 : cw.weights[a + 1] = SqDist(CellColour(a), cw.central_pix)

\* C21 (amended): each of the nine squared distances is measured from the
\* colour of a neighbourhood cell to the colour r, g, b handed to the call
\* (the colour of the window cell that is weighted), where the centre cell
\* contributes the reference colour central_pix (the colour estimate) instead
\* of the colour stored at that cell.
C21_DistancesToCandidate ==
  Filled => \A a \in 0..8 : cw.weights[a + 1] = SqDist(CellColour(a), CandidateColour)

\* a filled call whose candidate colour is not the reference colour, whose
\* centre cell stores a third colour, and whose distance for the centre is
\* the one between candidate and reference and not 0
C21_Witness ==
  /\ Filled
  /\ CandidateColour # cw.central_pix
  /\ LET c == UnpackPixel(cw.in_data[cw.pos])
     IN /\ <<c[1] * FScale, c[2] * FScale, c[3] * FScale>> # cw.central_pix
        /\ cw.weights[5] # SqDist(<<c[1] * FScale, c[2] * FScale, c[3] * FScale>>,
                                  CandidateColour)
  /\ cw.weights[5] = SqDist(cw.central_pix, CandidateColour)
  /\ cw.weights[5] > 0

(***************************************************************************)
(* The estimates of an iteration as means over the cells of its window.    *)
(***************************************************************************)
\* the weight (scaled by WScale) the iteration of the task with locals l
\* gives window cell c = <<i, j>>
WeightOfCell(l, c) ==
  CellWeight(TaskInput, in_img.num_cols, l, params.alpha, TwoSigmaSq(params.sigma),
             c[1], c[2])

\* what window cell c = <<i, j>> adds, times its weight, to the sum k of
\* the loop: wsum (k = 0), r, g, b (k = 1, 2, 3), mx (k = 4) and my (k = 5)
TermOfCell(c, k) ==
  CASE k = 0 -> 1
    [] k \in 1..3 -> UnpackPixel(TaskInput[c[1] * in_img.num_cols + c[2]])[k]
    [] k = 4 -> c[1]
    [] k = 5 -> c[2]

\* the sum k over the cells of the set S, each term times the weight of its cell
WeightedSum(l, S, k) ==
  LET RECURSIVE Sum(_)
      Sum(T) == IF T = {} THEN 0
                ELSE LET c == CHOOSE x \in T : TRUE
                     IN TermOfCell(c, k) * WeightOfCell(l, c) + Sum(T \ {c})
  IN Sum(S)

\* the estimates n follow from the estimates l by one iteration whose
\* colour and position are the weighted means over the window of l
MeansOfWindow(l, n) ==
  LET S    == WindowCells(l)
      wsum == WeightedSum(l, S, 0)
  IN IF wsum = 0
     THEN n.nan
     ELSE /\ ~n.nan
          /\ n.r = DivRound(WeightedSum(l, S, 1) * FScale, wsum)
          /\ n.g = DivRound(WeightedSum(l, S, 2) * FScale, wsum)
          /\ n.b = DivRound(WeightedSum(l, S, 3) * FScale, wsum)
          /\ n.ir = DivRound(WeightedSum(l, S, 4) * FScale, wsum)
          /\ n.ic = DivRound(WeightedSum(l, S, 5) * FScale, wsum)

\* C22: every iteration of a pixel task leaves as the colour estimate the
\* sum over all cells of its window of weight times colour, divided by the
\* sum of the weights, and as the position estimate the sum of weight times
\* (row, col) of the cells, divided by the same sum of the weights; where
\* the sum of the weights is 0 the quotients are 0 / 0, not a number.
C22_WeightedMeans ==
  [][\A t \in Threads :
       (th[t].pc = "loop" /\ th'[t] # th[t]) => MeansOfWindow(th[t].l, th'[t].l)]_vars

\* a task has done its first iteration over a window with two cells of
\* different weights strictly between 0 and 1, and both its colour and its
\* position have moved
C22_Witness ==
  \E t \in Threads :
    /\ th[t].pc \in {"loop", "store"}
    /\ th[t].l.iter_count = 1
    /\ ~th[t].l.nan
    /\ LET l0 == EnterPixel(TaskInput, in_img.num_cols, th[t].col, th[t].row)
       IN /\ \E c, d \in WindowCells(l0) :
               /\ 0 < WeightOfCell(l0, c)
               /\ WeightOfCell(l0, c) < WeightOfCell(l0, d)
               /\ WeightOfCell(l0, d) < WScale
          /\ <<th[t].l.r, th[t].l.g, th[t].l.b>> # <<l0.r, l0.g, l0.b>>
          /\ th[t].l.ir # l0.ir
          /\ th[t].l.ic # l0.ic

\* the cell of the pixel task <<row, col>>
CellOfTask(row, col) == row * in_img.num_cols + col

\* C23: a pixel task returns without reading the image and without writing
\* an output cell exactly when its row or its column is below 1 or at least
\* dimension - 1, whatever the block radius r is: a task that reads or stores
\* is never one of those, and when the pass is over the cells never written
\* are exactly the cells of those tasks.
C23_SkippedExactlyOnRing ==
  /\ \A t \in Threads :
       th[t].pc \in {"loop", "store"} =>
         /\ ~NearEdge(CellOfTask(th[t].row, th[t].col), 1)
         /\ OutPos(th[t].l) = CellOfTask(th[t].row, th[t].col)
  /\ (PassDone /\ int_out_data # NULL_BUF) =>
       \A p \in DOMAIN written :
         /\ (written[p] = << >>) <=> NearEdge(p, 1)
         /\ (int_out_data[p] = Indeterminate) <=> NearEdge(p, 1)

\* a call with r = 2 has returned: a cell within r + 1 of an edge and off the
\* outermost ring was written, and a cell of the ring was not
C23_Witness ==
  /\ pc = "returned"
  /\ result # NULL
  /\ params.r >= 2
  /\ \E p \in DOMAIN written :
       NearEdge(p, params.r + 1) /\ ~NearEdge(p, 1) /\ written[p] # << >>
  /\ \E p \in DOMAIN written : NearEdge(p, 1) /\ written[p] = << >>

\* C24: in the image filter_ms_rlsf returns, every pixel of row or column 0
\* or dimension - 1 (the pixels the tasks skip) is zero in all three
\* channels, the default value of the output buffer.
C24_SkippedPixelsZero ==
  (pc = "returned" /\ result # NULL) =>
    \A p \in DOMAIN result.data : NearEdge(p, 1) => result.data[p] = <<0, 0, 0>>

\* every pixel task of the pass has returned: no row is left to hand out,
\* every thread has left the loop, and every cell off the ring is written
AllTasksFinished ==
  /\ next_row = in_img.num_rows
  /\ \A t \in Threads : th[t].pc = "done"
  /\ \A p \in DOMAIN written : ~NearEdge(p, 1) => Len(written[p]) = 1

\* C25: the conversion of the packed output into the returned image and the
\* release of the two packed buffers happen only after every pixel task of
\* every thread has finished: once the call is past the parallel region, or
\* a byte of the output image has been set, or a packed buffer has been
\* released, all tasks have returned.
C25_ConversionAfterAllTasks ==
  /\ pc \in {"free", "returned"} => (result = NULL \/ AllTasksFinished)
  /\ (out_img # NULL /\ out_img # ZeroImage(in_img.num_rows, in_img.num_cols)) =>
       AllTasksFinished
  /\ (result # NoResult /\ result # NULL) =>
       (AllTasksFinished /\ heap \cap {"int_in_data", "int_out_data"} = {})
  /\ (pc = "parallel" /\ ~AllTasksFinished /\ \A b \in Blocks : b \notin oom) =>
       {"int_in_data", "int_out_data"} \subseteq heap

\* the output has been converted after a pass in which each of two threads
\* ran a pixel task
C25_Witness ==
  /\ pc = "free"
  /\ nthreads = 2
  /\ out_img # ZeroImage(in_img.num_rows, in_img.num_cols)
  /\ \E p, q \in DOMAIN written :
       /\ written[p] # << >> /\ written[p][1].thread = 1
       /\ written[q] # << >> /\ written[q][1].thread = 2

\* the thread of pixel p's row is inside the call for p
InCallFor(p) ==
  \E t \in Threads :
    /\ th[t].pc \in {"loop", "store"}
    /\ CellOfTask(th[t].row, th[t].col) = p

\* C26: in one pass denoise_pixel_rlsf is called exactly once for every
\* pixel (row, col) of the image, the pixels of the border included, by one
\* thread, the calls of one row all by the same thread, and every call gets
\* the same sigma argument 2 * sigma * sigma; a call for a pixel off the
\* border is a task that runs and stores.
C26_DispatchedOnce ==
  /\ \A p \in DOMAIN calls :
       /\ Len(calls[p]) <= 1
       /\ \A k \in DOMAIN calls[p] :
            /\ calls[p][k].thread \in Threads
            /\ calls[p][k].sigma = 2 * params.sigma * params.sigma
       /\ (calls[p] # << >> /\ ~NearEdge(p, 1) /\ int_out_data # NULL_BUF) =>
            (InCallFor(p) \/ Len(written[p]) = 1)
       /\ \A q \in DOMAIN calls :
            (calls[p] # << >> /\ calls[q] # << >> /\ RowOf(p) = RowOf(q)) =>
              calls[p][1].thread = calls[q][1].thread
  /\ (PassDone /\ result # NULL) =>
       /\ DOMAIN calls = 0..(in_img.num_rows * in_img.num_cols - 1)
       /\ \A p \in DOMAIN calls : Len(calls[p]) = 1

\* a pass of two threads is over: a pixel of the border and a pixel off the
\* border were dispatched, by different threads
C26_Witness ==
  /\ PassDone
  /\ nthreads = 2
  /\ \E p, q \in DOMAIN calls :
       /\ NearEdge(p, 1) /\ ~NearEdge(q, 1)
       /\ Len(calls[p]) = 1 /\ Len(calls[q]) = 1
       /\ calls[p][1].thread # calls[q][1].thread
       /\ calls[q][1].sigma = 2

\* the sum of the weights the next iteration of the task with locals l
\* divides by (wsum of lines 139-144), scaled by WScale
WsumOfIteration(l) == WeightedSum(l, WindowCells(l), 0)

\* C28: in every iteration of every processed pixel the sum of the weights
\* of the window is strictly positive where the colour sums and the
\* coordinate sums are divided by it: a task about to run an iteration has
\* a positive wsum ahead of it, and no task has estimates that are 0 / 0.
C28_WsumPositive ==
  \A t \in Threads :
    /\ th[t].pc = "loop" => WsumOfIteration(th[t].l) > 0
    /\ th[t].pc \in {"loop", "store"} => ~th[t].l.nan

\* the position estimate of the locals n lies, on each axis, within the
\* bounds win of a window, and its rounded value is off the outermost ring
PositionWithin(n, win) ==
  /\ win.istart * FScale <= n.ir /\ n.ir <= win.iend * FScale
  /\ win.jstart * FScale <= n.ic /\ n.ic <= win.jend * FScale
  /\ Round(n.ir) \in 1..(in_img.num_rows - 2)
  /\ Round(n.ic) \in 1..(in_img.num_cols - 2)

\* the tests of lines 146-149 leave the quotients of the iteration of the
\* task with locals l as they are
ClampIdle(l) ==
  /\ DivRound(WeightedSum(l, WindowCells(l), 4) * FScale, WsumOfIteration(l)) >= 0
  /\ DivRound(WeightedSum(l, WindowCells(l), 5) * FScale, WsumOfIteration(l)) >= 0

\* C27: after every iteration of a processed pixel the position estimate
\* lies, on each axis, within the bounds [start, end] of the window of that
\* iteration, so its rounded value is in 1..dimension - 2, and the clamp of
\* the position to non-negative values does not change it.
C27_PositionInWindow ==
  [][\A t \in Threads :
       (th[t].pc = "loop" /\ th'[t] # th[t]) =>
         /\ ~th'[t].l.nan
         /\ PositionWithin(th'[t].l,
                           Window(th[t].l, in_img.num_cols, in_img.num_rows, params.r))
         /\ ClampIdle(th[t].l)]_vars

(***************************************************************************)
(* Pixel tasks of a uniform-colour image.                                  *)
(***************************************************************************)
\* the locals with which the task thread t is in entered its loop
TaskStart(t) == EnterPixel(TaskInput, in_img.num_cols, th[t].col, th[t].row)

\* lines 98-101: a clamp cuts the window of the iteration with locals l on
\* some side
WindowClipped(l) ==
  LET win == Window(l, in_img.num_cols, in_img.num_rows, params.r)
  IN \/ win.istart # Round(l.ir) - params.r - 1
     \/ win.iend # Round(l.ir) + params.r + 1
     \/ win.jstart # Round(l.ic) - params.r - 1
     \/ win.jend # Round(l.ic) + params.r + 1

\* lines 98-101: on some axis the window of the iteration with locals l
\* reaches further to one side of the position than to the other
WindowOffCentre(l) ==
  LET win == Window(l, in_img.num_cols, in_img.num_rows, params.r)
  IN \/ win.istart + win.iend # 2 * Round(l.ir)
     \/ win.jstart + win.jend # 2 * Round(l.ic)

\* the estimates l and n have the same colour
SameColour(l, n) == <<l.r, l.g, l.b>> = <<n.r, n.g, n.b>>

\* the estimates l and n have the same position
SamePosition(l, n) == <<l.ir, l.ic>> = <<n.ir, n.ic>>

\* the task of thread t has run one iteration and left its loop with the
\* estimates it started with
StopsAfterOne(t) ==
  /\ th[t].pc = "store"
  /\ th[t].l.iter_count = 1
  /\ SameColour(th[t].l, TaskStart(t))
  /\ SamePosition(th[t].l, TaskStart(t))

\* the task of thread t has kept its colour, its first iteration has moved
\* its position, and with iter > 1 it does not leave the loop after one
KeepsColourAndMoves(t) ==
  /\ SameColour(th[t].l, TaskStart(t))
  /\ th[t].l.iter_count = 1 => ~SamePosition(th[t].l, TaskStart(t))
  /\ (th[t].pc = "store" /\ params.iter > 1) => th[t].l.iter_count > 1

\* a task that has run at least one iteration
HasIterated(t) == th[t].pc \in {"loop", "store"} /\ th[t].l.iter_count >= 1

\* C29 (as claimed): in a uniform-colour image a pixel whose window is not
\* clipped on either axis stops after exactly one iteration with colour and
\* position unchanged, and a pixel whose window is clipped keeps its colour
\* but moves its position and, with iter > 1, runs more than one iteration.
C29_Original ==
  \A t \in Threads :
    HasIterated(t) =>
      IF WindowClipped(TaskStart(t)) THEN KeepsColourAndMoves(t) ELSE StopsAfterOne(t)

\* C29 (amended): in a uniform-colour image a pixel whose window is not
\* clipped on either axis stops after exactly one iteration with colour and
\* position unchanged, and a pixel whose window is clipped further on one
\* side of an axis than on the other keeps its colour but moves its
\* position and, with iter > 1, runs more than one iteration; a window
\* clipped by the same amount on both sides of each axis it is clipped on
\* leaves the position where it is, and the pixel stops after one iteration.
C29_ClippedOffCentre ==
  \A t \in Threads :
    HasIterated(t) =>
      IF WindowOffCentre(TaskStart(t)) THEN KeepsColourAndMoves(t) ELSE StopsAfterOne(t)

\* the locals with which the task of cell p enters its loop
StartOfCell(p) ==
  EnterPixel(TaskInput, in_img.num_cols, p % in_img.num_cols, p \div in_img.num_cols)

\* in one call with iter > 1, a task with an off-centre window is leaving
\* its loop after more than one iteration with its position moved, and a
\* task whose window is clipped on both sides alike has stored its pixel
C29_Witness ==
  /\ pc = "parallel"
  /\ params.iter > 1
  /\ \E t \in Threads :
       /\ th[t].pc = "store"
       /\ WindowOffCentre(TaskStart(t))
       /\ th[t].l.iter_count > 1
       /\ ~SamePosition(th[t].l, TaskStart(t))
  /\ \E p \in DOMAIN written :
       /\ written[p] # << >>
       /\ WindowClipped(StartOfCell(p))
       /\ ~WindowOffCentre(StartOfCell(p))

(***************************************************************************)
(* The colour estimate against the colours of the window.                  *)
(***************************************************************************)
\* the values of channel k (1, 2, 3 for r, g, b) at the window cells of the
\* iteration with locals l
ChannelValues(l, k) == {TermOfCell(c, k) : c \in WindowCells(l)}

\* the value v of a channel, scaled by FScale, is between the least and the
\* greatest value of the set S and within 0..255
BetweenExtremes(v, S) ==
  /\ \A x \in S : \E y \in S : y <= x /\ y * FScale <= v
  /\ \A x \in S : \E y \in S : y >= x /\ y * FScale >= v
  /\ 0 <= v /\ v <= 255 * FScale

\* lines 155-157 and 234-236: the packed colour of the estimates n unpacks
\* to the truncated channels
UnpacksToTruncated(n) ==
  UnpackPixel(OutValue(n)) = <<Trunc(n.r), Trunc(n.g), Trunc(n.b)>>

\* C30: after every iteration each channel of the colour estimate lies
\* between the minimum and the maximum of that channel over the cells of
\* the window of that iteration, so within 0..255, and the packed output of
\* the pixel unpacks to the truncated final channels, no channel running
\* over into another.
C30_ColourWithinWindowRange ==
  [][\A t \in Threads :
       (th[t].pc = "loop" /\ th'[t] # th[t]) =>
         /\ ~th'[t].l.nan
         /\ BetweenExtremes(th'[t].l.r, ChannelValues(th[t].l, 1))
         /\ BetweenExtremes(th'[t].l.g, ChannelValues(th[t].l, 2))
         /\ BetweenExtremes(th'[t].l.b, ChannelValues(th[t].l, 3))
         /\ UnpacksToTruncated(th'[t].l)
         /\ (th'[t].pc = "store" => StoreValue(th'[t].l) = OutValue(th'[t].l))]_vars

====
